---- MODULE Spec2Model ----
(***************************************************************************)
(* Model of src/main.py: calculate_deviation, the function behind the      *)
(* Deviation Calculator form.  One frame per caller holds the position in  *)
(* the function body (pc, named after the source line about to run), the   *)
(* local namespace, the library calls made so far, and the outcome.        *)
(*                                                                         *)
(* Numbers.  Python floats are modelled in fixed point:                    *)
(*   - miles (the three returned scalars): Scale units per mile;           *)
(*   - metres (geographiclib's s12): centimetres;                          *)
(*   - degrees of latitude/longitude: microdegrees;                        *)
(*   - radians and tangents: millionths;                                   *)
(*   - a magnitude beyond the model's integers is represented by Huge.     *)
(* Headings, heading deviations and distances are whole degrees / miles.   *)
(* Strings that the code takes apart are sequences of one-character        *)
(* strings; strings that it only builds are strings.                       *)
(***************************************************************************)
EXTENDS Integers, Sequences, FiniteSets, TLC

VARIABLES frames, globals

vars == <<frames, globals>>

----------------------------------------------------------------------------
(* Bounds of the model. *)

\* decimal_places is drawn from 0..MaxDecimalPlaces
MaxDecimalPlaces == 2

\* number of concurrent callers in SpecConc
NumCallers == 2

\* digits kept after the decimal point of a mile value; two more than any
\* decimal_places, so that rounding always has something to round
FracDigits == MaxDecimalPlaces + 2

Scale == 10 ^ FracDigits

TanScale == 10 ^ 6

DegScale == 10 ^ 6

\* stands for every magnitude the model's integers cannot hold
Huge == 2 * (10 ^ 9)

----------------------------------------------------------------------------
(* Module-level state of main.py. *)

\* line 5: METERS_TO_MILES = 1609.34 (metres per mile), here in centimetres
METERS_TO_MILES == 160934

\* the module-level names that calculate_deviation reads: the conversion
\* factor and the imported Geodesic class with its WGS84 instance
ModuleGlobals == ("METERS_TO_MILES" :> METERS_TO_MILES) @@ ("Geodesic" :> "WGS84")

----------------------------------------------------------------------------
(* Arithmetic helpers. *)

Abs(x) == IF x < 0 THEN -x ELSE x

Sign(x) == IF x < 0 THEN -1 ELSE 1

\* n / d rounded to the nearest integer, ties to even (n >= 0, d > 0)
RoundDivNat(n, d) ==
    LET q == n \div d
        r == n % d
    IN  IF 2 * r > d \/ (2 * r = d /\ q % 2 = 1) THEN q + 1 ELSE q

RoundDiv(n, d) == Sign(n) * RoundDivNat(Abs(n), d)

\* <<quotient, remainder>> of (a * 10^k) / d by long division, one decimal
\* digit at a time, so that no intermediate product leaves the integers
RECURSIVE LongDiv(_, _, _)
LongDiv(a, k, d) ==
    IF k = 0 THEN <<a \div d, a % d>>
    ELSE LET p == LongDiv(a, k - 1, d)
         IN  <<p[1] * 10 + (p[2] * 10) \div d, (p[2] * 10) % d>>

\* float division metres / METERS_TO_MILES: centimetres to Scale units of a
\* mile, rounded to the nearest unit
DivMetersToMiles(s12, metersPerMile) ==
    LET p == LongDiv(s12, FracDigits, metersPerMile)
    IN  IF 2 * p[2] >= metersPerMile THEN p[1] + 1 ELSE p[1]

\* FloatMul as it would be if the tangent at the asymptote were an infinity:
\* inf * 0 is not 0 (a fault that C4_ZeroDistance must detect)
FloatMulInfinity(distance, t) ==
    IF Abs(t) >= Huge THEN Sign(t) * Huge
    ELSE IF distance = 0 \/ t = 0 THEN 0
    ELSE RoundDiv(distance * t, TanScale \div Scale)

\* float product distance * tangent, in Scale units of a mile.  A tangent of
\* magnitude Huge times a non-zero distance is again beyond the integers.
FloatMul(distance, t) ==
    IF distance = 0 \/ t = 0 THEN 0
    ELSE IF Abs(t) >= Huge THEN Sign(distance) * Sign(t) * Huge
    ELSE RoundDiv(distance * t, TanScale \div Scale)

\* Python's round(x, ndigits) on a float: the nearest multiple of
\* 10^-ndigits, ties to even
round(x, ndigits) ==
    IF ndigits >= FracDigits THEN x
    ELSE LET grid == 10 ^ (FracDigits - ndigits)
         IN  Sign(x) * RoundDivNat(Abs(x), grid) * grid

----------------------------------------------------------------------------
(* math.radians and math.tan. *)

\* math.radians(d): d * pi / 180, in microradians (pi/180 = 0.0174532925...)
math_radians(d) ==
    Sign(d) * (Abs(d) * 17453 + RoundDivNat(Abs(d) * 2925, 10000))

\* math.tan on the microradian arguments the model reaches, in millionths.
\* math.tan never raises on a finite float: radians(90) is the float nearest
\* pi/2, not pi/2, and its tangent is the finite float 1.633123935319537e16.
TanRows ==
    { <<-1570796, -Huge>>, <<-87266, -87489>>, <<-17453, -17455>>,
      <<0, 0>>,
      <<17453, 17455>>, <<87266, 87489>>, <<1570796, Huge>> }

math_tan(x) == (CHOOSE r \in TanRows : r[1] = x)[2]

----------------------------------------------------------------------------
(* str.split, float() and float formatting. *)

DigitValue ==
    ("0" :> 0) @@ ("1" :> 1) @@ ("2" :> 2) @@ ("3" :> 3) @@ ("4" :> 4) @@
    ("5" :> 5) @@ ("6" :> 6) @@ ("7" :> 7) @@ ("8" :> 8) @@ ("9" :> 9)

IsDigit(ch) == ch \in DOMAIN DigitValue

\* s.split(sep): the fields between the separators; always at least one
RECURSIVE SplitFrom(_, _, _)
SplitFrom(s, sep, field) ==
    IF s = <<>> THEN <<field>>
    ELSE IF Head(s) = sep THEN <<field>> \o SplitFrom(Tail(s), sep, <<>>)
    ELSE SplitFrom(Tail(s), sep, Append(field, Head(s)))

split(s, sep) == SplitFrom(s, sep, <<>>)

RECURSIVE StripLeft(_)
StripLeft(s) ==
    IF s /= <<>> /\ Head(s) = " " THEN StripLeft(Tail(s)) ELSE s

RECURSIVE StripRight(_)
StripRight(s) ==
    IF s /= <<>> /\ s[Len(s)] = " "
    THEN StripRight(SubSeq(s, 1, Len(s) - 1)) ELSE s

RECURSIVE DigitsValue(_, _)
DigitsValue(ds, acc) ==
    IF ds = <<>> THEN acc
    ELSE DigitsValue(Tail(ds), acc * 10 + DigitValue[Head(ds)])

\* the digits after the point, as millionths (six digits are kept)
FractionValue(ds) ==
    LET six == SubSeq(ds \o <<"0", "0", "0", "0", "0", "0">>, 1, 6)
    IN  DigitsValue(six, 0)

\* float(s) for plain decimal text: surrounding blanks, an optional sign,
\* digits with at most one point and at least one digit.  ok = FALSE is
\* ValueError("could not convert string to float").  The value is in
\* millionths.
float(s) ==
    LET t      == StripRight(StripLeft(s))
        signed == t /= <<>> /\ Head(t) \in {"+", "-"}
        body   == IF signed THEN Tail(t) ELSE t
        dots   == {i \in 1..Len(body) : body[i] = "."}
        dot    == IF dots = {} THEN Len(body) + 1 ELSE CHOOSE i \in dots : TRUE
        whole  == SubSeq(body, 1, dot - 1)
        frac   == SubSeq(body, dot + 1, Len(body))
        ok     == /\ Cardinality(dots) <= 1
                  /\ \A i \in 1..Len(body) : i \in dots \/ IsDigit(body[i])
                  /\ Len(whole) + Len(frac) >= 1
        mag    == DigitsValue(whole, 0) * DegScale + FractionValue(frac)
    IN  IF ok
        THEN [ok |-> TRUE,
              value |-> IF signed /\ Head(t) = "-" THEN -mag ELSE mag]
        ELSE [ok |-> FALSE, value |-> 0]

\* the fraction digits of format(float), most significant first, without
\* trailing zeros but never empty
RECURSIVE FractionText(_, _)
FractionText(n, width) ==
    IF n = 0 \/ width = 0 THEN ""
    ELSE LET top == 10 ^ (width - 1)
         IN  ToString(n \div top) \o FractionText(n % top, width - 1)

\* f"{x}" for a float x given in millionths: sign, whole part, point, fraction
format(x) ==
    LET a    == Abs(x)
        frac == FractionText(a % DegScale, 6)
    IN  (IF x < 0 THEN "-" ELSE "") \o ToString(a \div DegScale) \o "."
        \o (IF frac = "" THEN "0" ELSE frac)

----------------------------------------------------------------------------
(* geographiclib: Geodesic.WGS84.Direct and Geodesic.WGS84.Inverse.         *)
(* The library is not part of the repository.  It solves the direct and    *)
(* inverse geodesic problems on the WGS84 ellipsoid (a = 6378137 m,        *)
(* f = 1/298.257223563); the rows below are those solutions for the        *)
(* arguments the model reaches, positions rounded to a microdegree and      *)
(* lengths to a centimetre.                                                *)
(***************************************************************************)

\* <<lat1, lon1, azi1, s12, lat2, lon2>>
DirectRows ==
    { <<-6728000, 146994000, -90, 0, -6728000, 146994000>>,
      <<-6728000, 146994000, -90, 16093400, -6725834, 145538352>>,
      <<-6728000, 146994000, -90, 411347304, -5363522, 109853321>>,
      <<-6728000, 146994000, -12, 0, -6728000, 146994000>>,
      <<-6728000, 146994000, -12, 16093400, -5304438, 146692170>>,
      <<-6728000, 146994000, -12, 411347304, 29579641, 138741252>>,
      <<-6728000, 146994000, -5, 0, -6728000, 146994000>>,
      <<-6728000, 146994000, -5, 16093400, -5278245, 146867480>>,
      <<-6728000, 146994000, -5, 411347304, 30294151, 143519628>>,
      <<-6728000, 146994000, -1, 0, -6728000, 146994000>>,
      <<-6728000, 146994000, -1, 16093400, -5272944, 146968665>>,
      <<-6728000, 146994000, -1, 411347304, 30439397, 146297661>>,
      <<-6728000, 146994000, 0, 0, -6728000, 146994000>>,
      <<-6728000, 146994000, 0, 16093400, -5272722, 146994000>>,
      <<-6728000, 146994000, 0, 411347304, 30445457, 146994000>>,
      <<-6728000, 146994000, 1, 0, -6728000, 146994000>>,
      <<-6728000, 146994000, 1, 16093400, -5272944, 147019335>>,
      <<-6728000, 146994000, 1, 411347304, 30439397, 147690339>>,
      <<-6728000, 146994000, 5, 0, -6728000, 146994000>>,
      <<-6728000, 146994000, 5, 16093400, -5278245, 147120520>>,
      <<-6728000, 146994000, 5, 411347304, 30294151, 150468372>>,
      <<-6728000, 146994000, 73, 0, -6728000, 146994000>>,
      <<-6728000, 146994000, 73, 16093400, -6300589, 148384859>>,
      <<-6728000, 146994000, 73, 411347304, 4713183, -177780944>>,
      <<-6728000, 146994000, 77, 0, -6728000, 146994000>>,
      <<-6728000, 146994000, 77, 16093400, -6398619, 148411407>>,
      <<-6728000, 146994000, 77, 411347304, 2387961, -177116266>>,
      <<-6728000, 146994000, 78, 0, -6728000, 146994000>>,
      <<-6728000, 146994000, 78, 16093400, -6423397, 148416972>>,
      <<-6728000, 146994000, 78, 411347304, 1801056, -176970726>>,
      <<-6728000, 146994000, 79, 0, -6728000, 146994000>>,
      <<-6728000, 146994000, 79, 16093400, -6448269, 148422104>>,
      <<-6728000, 146994000, 79, 411347304, 1212154, -176833412>>,
      <<-6728000, 146994000, 83, 0, -6728000, 146994000>>,
      <<-6728000, 146994000, 83, 16093400, -6548536, 148438279>>,
      <<-6728000, 146994000, 83, 411347304, -1161024, -176366293>>,
      <<-6728000, 146994000, 90, 0, -6728000, 146994000>>,
      <<-6728000, 146994000, 90, 16093400, -6725834, 148449648>>,
      <<-6728000, 146994000, 90, 411347304, -5363522, -175865321>>,
      <<-6728000, 146994000, 168, 0, -6728000, 146994000>>,
      <<-6728000, 146994000, 168, 16093400, -8151292, 147297593>>,
      <<-6728000, 146994000, 168, 411347304, -42824754, 156787586>>,
      <<40712800, -74006000, -90, 0, 40712800, -74006000>>,
      <<40712800, -74006000, -90, 16093400, 40697092, -75910261>>,
      <<40712800, -74006000, -90, 411347304, 31398446, -118734262>>,
      <<40712800, -74006000, -12, 0, 40712800, -74006000>>,
      <<40712800, -74006000, -12, 16093400, 42129480, -74410641>>,
      <<40712800, -74006000, -12, 411347304, 75222752, -103254002>>,
      <<40712800, -74006000, -5, 0, 40712800, -74006000>>,
      <<40712800, -74006000, -5, 16093400, 42156205, -74175694>>,
      <<40712800, -74006000, -5, 411347304, 77190539, -87633755>>,
      <<40712800, -74006000, -1, 0, 40712800, -74006000>>,
      <<40712800, -74006000, -1, 16093400, 42161616, -74039983>>,
      <<40712800, -74006000, -1, 411347304, 77626080, -76803884>>,
      <<40712800, -74006000, 0, 0, 40712800, -74006000>>,
      <<40712800, -74006000, 0, 16093400, 42161842, -74006000>>,
      <<40712800, -74006000, 0, 411347304, 77644567, -74006000>>,
      <<40712800, -74006000, 1, 0, 40712800, -74006000>>,
      <<40712800, -74006000, 1, 16093400, 42161616, -73972017>>,
      <<40712800, -74006000, 1, 411347304, 77626080, -71208116>>,
      <<40712800, -74006000, 5, 0, 40712800, -74006000>>,
      <<40712800, -74006000, 5, 16093400, 42156205, -73836306>>,
      <<40712800, -74006000, 5, 411347304, 77190539, -60378245>>,
      <<40712800, -74006000, 73, 0, 40712800, -74006000>>,
      <<40712800, -74006000, 73, 16093400, 41121999, -72173276>>,
      <<40712800, -74006000, 73, 411347304, 40894207, -24579274>>,
      <<40712800, -74006000, 77, 0, 40712800, -74006000>>,
      <<40712800, -74006000, 77, 16093400, 41023776, -72141420>>,
      <<40712800, -74006000, 77, 411347304, 38598774, -25532458>>,
      <<40712800, -74006000, 78, 0, 40712800, -74006000>>,
      <<40712800, -74006000, 78, 16093400, 40998975, -72134891>>,
      <<40712800, -74006000, 78, 411347304, 38030138, -25786463>>,
      <<40712800, -74006000, 79, 0, 40712800, -74006000>>,
      <<40712800, -74006000, 79, 16093400, 40974091, -72128939>>,
      <<40712800, -74006000, 79, 411347304, 37463724, -26046505>>,
      <<40712800, -74006000, 83, 0, 40712800, -74006000>>,
      <<40712800, -74006000, 83, 16093400, 40873879, -72110918>>,
      <<40712800, -74006000, 83, 411347304, 35221586, -27144929>>,
      <<40712800, -74006000, 90, 0, 40712800, -74006000>>,
      <<40712800, -74006000, 90, 16093400, 40697092, -72101739>>,
      <<40712800, -74006000, 90, 411347304, 31398446, -29277738>>,
      <<40712800, -74006000, 168, 0, 40712800, -74006000>>,
      <<40712800, -74006000, 168, 16093400, 39294411, -73618169>>,
      <<40712800, -74006000, 168, 411347304, 4150342, -66809531>> }

\* <<lat1, lon1, lat2, lon2, s12>>
InverseRows ==
    { <<-42824754, 156787586, 1801056, -176970726, 559922399>>,
      <<-8151292, 147297593, -6423397, 148416972, 22758289>>,
      <<-6728000, 146994000, -6728000, 146994000, 0>>,
      <<-6725834, 145538352, -5272722, 146994000, 22758289>>,
      <<-6725834, 148449648, -5272722, 146994000, 22758289>>,
      <<-6548536, 148438279, -6423397, 148416972, 1403819>>,
      <<-6448269, 148422104, -6423397, 148416972, 280849>>,
      <<-6423397, 148416972, -6423397, 148416972, 0>>,
      <<-6398619, 148411407, -6423397, 148416972, 280849>>,
      <<-6300589, 148384859, -6423397, 148416972, 1403819>>,
      <<-5363522, -175865321, 30445457, 146994000, 559905055>>,
      <<-5363522, 109853321, 30445457, 146994000, 559905055>>,
      <<-5304438, 146692170, -6423397, 148416972, 22758289>>,
      <<-5278245, 146867480, -5272722, 146994000, 1403819>>,
      <<-5278245, 147120520, -5272722, 146994000, 1403819>>,
      <<-5272944, 146968665, -5272722, 146994000, 280849>>,
      <<-5272944, 147019335, -5272722, 146994000, 280849>>,
      <<-5272722, 146994000, -5272722, 146994000, 0>>,
      <<-1161024, -176366293, 1801056, -176970726, 33436884>>,
      <<1212154, -176833412, 1801056, -176970726, 6688668>>,
      <<1801056, -176970726, 1801056, -176970726, 0>>,
      <<2387961, -177116266, 1801056, -176970726, 6688666>>,
      <<4150342, -66809531, 38030138, -25786463, 559989711>>,
      <<4713183, -177780944, 1801056, -176970726, 33436831>>,
      <<29579641, 138741252, 1801056, -176970726, 559905806>>,
      <<30294151, 143519628, 30445457, 146994000, 33438701>>,
      <<30294151, 150468372, 30445457, 146994000, 33438701>>,
      <<30439397, 146297661, 30445457, 146994000, 6689040>>,
      <<30439397, 147690339, 30445457, 146994000, 6689040>>,
      <<30445457, 146994000, 30445457, 146994000, 0>>,
      <<31398446, -118734262, 77644567, -74006000, 560076775>>,
      <<31398446, -29277738, 77644567, -74006000, 560076775>>,
      <<35221586, -27144929, 38030138, -25786463, 33450370>>,
      <<37463724, -26046505, 38030138, -25786463, 6691443>>,
      <<38030138, -25786463, 38030138, -25786463, 0>>,
      <<38598774, -25532458, 38030138, -25786463, 6691478>>,
      <<39294411, -73618169, 40998975, -72134891, 22758296>>,
      <<40697092, -75910261, 42161842, -74006000, 22758296>>,
      <<40697092, -72101739, 42161842, -74006000, 22758296>>,
      <<40712800, -74006000, 40712800, -74006000, 0>>,
      <<40873879, -72110918, 40998975, -72134891, 1403820>>,
      <<40894207, -24579274, 38030138, -25786463, 33451227>>,
      <<40974091, -72128939, 40998975, -72134891, 280849>>,
      <<40998975, -72134891, 40998975, -72134891, 0>>,
      <<41023776, -72141420, 40998975, -72134891, 280849>>,
      <<41121999, -72173276, 40998975, -72134891, 1403820>>,
      <<42129480, -74410641, 40998975, -72134891, 22758296>>,
      <<42156205, -74175694, 42161842, -74006000, 1403820>>,
      <<42156205, -73836306, 42161842, -74006000, 1403820>>,
      <<42161616, -74039983, 42161842, -74006000, 280849>>,
      <<42161616, -73972017, 42161842, -74006000, 280849>>,
      <<42161842, -74006000, 42161842, -74006000, 0>>,
      <<75222752, -103254002, 38030138, -25786463, 560087382>>,
      <<77190539, -87633755, 77644567, -74006000, 33460053>>,
      <<77190539, -60378245, 77644567, -74006000, 33460053>>,
      <<77626080, -76803884, 77644567, -74006000, 6693319>>,
      <<77626080, -71208116, 77644567, -74006000, 6693319>>,
      <<77644567, -74006000, 77644567, -74006000, 0>> }

\* geo.Direct(lat1, lon1, azi1, s12): the point s12 along the geodesic that
\* leaves (lat1, lon1) at azimuth azi1
Direct(lat1, lon1, azi1, s12) ==
    LET r == CHOOSE r \in DirectRows :
                 r[1] = lat1 /\ r[2] = lon1 /\ r[3] = azi1 /\ r[4] = s12
    IN  [lat2 |-> r[5], lon2 |-> r[6]]

\* geo.Inverse(lat1, lon1, lat2, lon2): the length of the shortest geodesic
\* between the two points
Inverse(lat1, lon1, lat2, lon2) ==
    LET r == CHOOSE r \in InverseRows :
                 r[1] = lat1 /\ r[2] = lon1 /\ r[3] = lat2 /\ r[4] = lon2
    IN  [s12 |-> r[5]]

----------------------------------------------------------------------------
(* Inputs. *)

\* "-6.728, 146.994": the form's default (Lae, New Guinea), blank included
EarhartCoordinates ==
    <<"-", "6", ".", "7", "2", "8", ",", " ",
      "1", "4", "6", ".", "9", "9", "4">>

\* "40.7128,-74.006"
NewYorkCoordinates ==
    <<"4", "0", ".", "7", "1", "2", "8", ",",
      "-", "7", "4", ".", "0", "0", "6">>

\* "12.5": one field;  "1,2,3": three fields;  "abc,1": not a number;
\* "": nothing at all
OneField == <<"1", "2", ".", "5">>

ThreeFields == <<"1", ",", "2", ",", "3">>

NotANumber == <<"a", "b", "c", ",", "1">>

EmptyText == <<>>

CoordinateTexts ==
    { EarhartCoordinates, NewYorkCoordinates,
      OneField, ThreeFields, NotANumber, EmptyText }

Headings == {0, 78}

Distances == {0, 100, 2556}

HeadingDeviations == {-90, -5, -1, 0, 1, 5, 90}

DecimalPlaces == 0..MaxDecimalPlaces

\* the five arguments of one call
Requests ==
    [initial_coordinates : CoordinateTexts,
     initial_heading     : Headings,
     distance            : Distances,
     heading_deviation   : HeadingDeviations,
     decimal_places      : DecimalPlaces]

\* the form's default values (lines 83-87)
EarhartDefaults ==
    [initial_coordinates |-> EarhartCoordinates,
     initial_heading     |-> 78,
     distance            |-> 2556,
     heading_deviation   |-> 1,
     decimal_places      |-> 2]

\* the calls that run concurrently in SpecConc
ConcRequests ==
    { r \in Requests :
        /\ r.initial_coordinates \in {EarhartCoordinates, OneField}
        /\ r.initial_heading = 78
        /\ r.distance = 2556
        /\ r.heading_deviation \in {1, 90}
        /\ r.decimal_places = MaxDecimalPlaces }

Callers == 1..NumCallers

----------------------------------------------------------------------------
(* Frames. *)

Finished == {"returned", "raised"}

\* no call in progress
Idle ==
    [pc |-> "idle", locals |-> [n \in {} |-> 0], calls |-> <<>>,
     ret |-> <<>>, exc |-> ""]

\* entry into calculate_deviation (line 41): the parameters are the first
\* local names
Call(args) ==
    [pc |-> "L44", locals |-> args, calls |-> <<>>, ret |-> <<>>, exc |-> ""]

\* name = value
Assign(f, name, value) == [f EXCEPT !.locals = (name :> value) @@ f.locals]

Goto(f, pc) == [f EXCEPT !.pc = pc]

Called(f, what) == [f EXCEPT !.calls = Append(f.calls, what)]

Raise(f, exc) == [f EXCEPT !.pc = "raised", !.exc = exc]

----------------------------------------------------------------------------
(* The statements of calculate_deviation, by source line. *)

\* line 44: heading_deviation_rad = math.radians(heading_deviation)
L44(f, g) ==
    Goto(Called(Assign(f, "heading_deviation_rad",
                       math_radians(f.locals.heading_deviation)),
                "math.radians"),
         "L46")

\* line 46 with the error swallowed: text that does not parse is replaced by
\* the form's default origin (a fault that C5_MalformedRaises must detect)
L46Fallback(f, g) ==
    LET fields == split(f.locals.initial_coordinates, ",")
        good   == Len(fields) = 2 /\ float(fields[1]).ok /\ float(fields[2]).ok
    IN  Goto(Assign(Assign(f,
                 "starting_lat",
                 IF good THEN float(fields[1]).value ELSE -6728000),
                 "starting_lon",
                 IF good THEN float(fields[2]).value ELSE 146994000),
             "L52")

\* line 46: starting_lat, starting_lon = map(float, s.split(',')).
\* Unpacking into two names draws from the map one float at a time: a field
\* that is no number, a missing second field, or a third field all raise
\* ValueError.
L46(f, g) ==
    LET fields == split(f.locals.initial_coordinates, ",")
    IN  IF Len(fields) = 2 /\ float(fields[1]).ok /\ float(fields[2]).ok
        THEN Goto(Assign(Assign(f, "starting_lat", float(fields[1]).value),
                         "starting_lon", float(fields[2]).value),
                  "L52")
        ELSE Raise(f, "ValueError")

\* line 52: actual_end_point = geo.Direct(starting_lat, starting_lon,
\*     initial_heading + heading_deviation, distance * METERS_TO_MILES)
L52(f, g) ==
    LET l == f.locals
    IN  Goto(Called(Assign(f, "actual_end_point",
                           Direct(l.starting_lat, l.starting_lon,
                                  l.initial_heading + l.heading_deviation,
                                  l.distance * g.METERS_TO_MILES)),
                    "geo.Direct"),
             "L53")

\* line 53: correct_end_point = geo.Direct(starting_lat, starting_lon,
\*     initial_heading, distance * METERS_TO_MILES)
L53(f, g) ==
    LET l == f.locals
    IN  Goto(Called(Assign(f, "correct_end_point",
                           Direct(l.starting_lat, l.starting_lon,
                                  l.initial_heading,
                                  l.distance * g.METERS_TO_MILES)),
                    "geo.Direct"),
             "L56")

\* lines 56-57: deviation_distance = geo.Inverse(actual, correct)['s12']
\*     / METERS_TO_MILES
L56(f, g) ==
    LET l == f.locals
    IN  Goto(Called(Assign(f, "deviation_distance",
                           DivMetersToMiles(
                               Inverse(l.actual_end_point.lat2,
                                       l.actual_end_point.lon2,
                                       l.correct_end_point.lat2,
                                       l.correct_end_point.lon2).s12,
                               g.METERS_TO_MILES)),
                    "geo.Inverse"),
             "L60")

\* line 60 without abs (a fault that C6_TrigSymmetric must detect)
L60NoAbs(f, g) ==
    LET l == f.locals
    IN  Goto(Called(Assign(f, "trig_deviation_distance",
                           FloatMul(l.distance,
                                    math_tan(l.heading_deviation_rad))),
                    "math.tan"),
             "L63")

\* line 60: trig_deviation_distance =
\*     abs(distance * math.tan(heading_deviation_rad))
L60(f, g) ==
    LET l == f.locals
    IN  Goto(Called(Assign(f, "trig_deviation_distance",
                           Abs(FloatMul(l.distance,
                                        math_tan(l.heading_deviation_rad)))),
                    "math.tan"),
             "L63")

\* line 63 without abs (a fault that C1_DifferenceOfUnrounded must detect)
L63NoAbs(f, g) ==
    LET l == f.locals
    IN  Goto(Assign(f, "deviation_difference",
                    l.deviation_distance - l.trig_deviation_distance),
             "L66")

\* line 63: deviation_difference =
\*     abs(deviation_distance - trig_deviation_distance)
L63(f, g) ==
    LET l == f.locals
    IN  Goto(Assign(f, "deviation_difference",
                    Abs(l.deviation_distance - l.trig_deviation_distance)),
             "L66")

\* lines 66-68 with line 67 missing: the trigonometric deviation is left
\* unrounded (a fault that C7_TrigFormula must detect)
L66SkipsTrig(f, g) ==
    LET l == f.locals
        n == l.decimal_places
    IN  Goto(Assign(Assign(f,
                 "deviation_distance", round(l.deviation_distance, n)),
                 "deviation_difference", round(l.deviation_difference, n)),
             "L71")

\* lines 66-68 with line 68 missing: the difference is left unrounded (a
\* fault that C9_RoundingIdempotent must detect)
L66SkipsDifference(f, g) ==
    LET l == f.locals
        n == l.decimal_places
    IN  Goto(Assign(Assign(f,
                 "deviation_distance", round(l.deviation_distance, n)),
                 "trig_deviation_distance",
                 round(l.trig_deviation_distance, n)),
             "L71")

\* lines 66-68: each of the three scalars is replaced by itself rounded to
\* decimal_places
L66(f, g) ==
    LET l == f.locals
        n == l.decimal_places
    IN  Goto(Assign(Assign(Assign(f,
                 "deviation_distance", round(l.deviation_distance, n)),
                 "trig_deviation_distance",
                 round(l.trig_deviation_distance, n)),
                 "deviation_difference", round(l.deviation_difference, n)),
             "L71")

\* lines 71-77 with the two end points under each other's label (a fault
\* that C10_Endpoints must detect)
L71Swapped(f, g) ==
    LET l == f.locals
        link(lat, lon) ==
            "https://www.google.com/maps/?q=" \o format(lat) \o ","
            \o format(lon)
    IN  Goto(Assign(f, "links",
                    "Starting Point: [Link]("
                    \o link(l.starting_lat, l.starting_lon) \o ")\n\n"
                    \o "Planned Ending Point: [Link]("
                    \o link(l.actual_end_point.lat2, l.actual_end_point.lon2)
                    \o ")\n\n"
                    \o "Actual Ending Point: [Link]("
                    \o link(l.correct_end_point.lat2,
                            l.correct_end_point.lon2)
                    \o ")"),
             "L79")

MapsLink(lat, lon) ==
    "https://www.google.com/maps/?q=" \o format(lat) \o "," \o format(lon)

\* lines 71-77: the three links and the text that carries them
L71(f, g) ==
    LET l == f.locals
        starting_link    == MapsLink(l.starting_lat, l.starting_lon)
        actual_end_link  == MapsLink(l.actual_end_point.lat2,
                                     l.actual_end_point.lon2)
        correct_end_link == MapsLink(l.correct_end_point.lat2,
                                     l.correct_end_point.lon2)
    IN  Goto(Assign(f, "links",
                    "Starting Point: [Link](" \o starting_link \o ")\n\n"
                    \o "Planned Ending Point: [Link](" \o correct_end_link
                    \o ")\n\n"
                    \o "Actual Ending Point: [Link](" \o actual_end_link
                    \o ")"),
             "L79")

\* line 79 returning `distance` where `deviation_distance` is meant (a fault
\* that C3_ZeroDeviation must detect)
L79ReturnsDistance(f, g) ==
    LET l == f.locals
    IN  [f EXCEPT !.pc = "returned",
                  !.ret = <<l.distance * Scale, l.trig_deviation_distance,
                            l.deviation_difference, l.links>>]

\* line 79: return deviation_distance, trig_deviation_distance,
\*     deviation_difference, links
L79(f, g) ==
    LET l == f.locals
    IN  [f EXCEPT !.pc = "returned",
                  !.ret = <<l.deviation_distance, l.trig_deviation_distance,
                            l.deviation_difference, l.links>>]

\* the body with heading_deviation_rad kept as a module-level name instead
\* of a local one: line 44 writes it, line 60 reads it (a fault that
\* C8_Stateless must detect)
ExecModuleLevelName(f, g) ==
    LET shared == "heading_deviation_rad"
    IN  CASE f.pc = "L44" ->
               [frame |-> L44(f, g),
                globals |-> (shared :> math_radians(f.locals.heading_deviation))
                            @@ g]
          [] f.pc = "L46" -> [frame |-> L46(f, g), globals |-> g]
          [] f.pc = "L52" -> [frame |-> L52(f, g), globals |-> g]
          [] f.pc = "L53" -> [frame |-> L53(f, g), globals |-> g]
          [] f.pc = "L56" -> [frame |-> L56(f, g), globals |-> g]
          [] f.pc = "L60" ->
               [frame |-> L60(Assign(f, shared, g[shared]), g), globals |-> g]
          [] f.pc = "L63" -> [frame |-> L63(f, g), globals |-> g]
          [] f.pc = "L66" -> [frame |-> L66(f, g), globals |-> g]
          [] f.pc = "L71" -> [frame |-> L71(f, g), globals |-> g]
          [] f.pc = "L79" -> [frame |-> L79(f, g), globals |-> g]

\* one statement of the body: the frame and the module namespace after it.
\* No statement of calculate_deviation assigns a module-level name.
Exec(f, g) ==
    [frame |-> CASE f.pc = "L44" -> L44(f, g)
                 [] f.pc = "L46" -> L46(f, g)
                 [] f.pc = "L52" -> L52(f, g)
                 [] f.pc = "L53" -> L53(f, g)
                 [] f.pc = "L56" -> L56(f, g)
                 [] f.pc = "L60" -> L60(f, g)
                 [] f.pc = "L63" -> L63(f, g)
                 [] f.pc = "L66" -> L66(f, g)
                 [] f.pc = "L71" -> L71(f, g)
                 [] f.pc = "L79" -> L79(f, g),
     globals |-> g]

\* the body run from frame f until it reaches pc `stop` or finishes
RECURSIVE RunUntil(_, _, _)
RunUntil(f, g, stop) ==
    IF f.pc = stop \/ f.pc \in Finished THEN [frame |-> f, globals |-> g]
    ELSE LET r == Exec(f, g) IN RunUntil(r.frame, r.globals, stop)

\* a whole call: from entry to return or raise
Run(f, g) == RunUntil(f, g, "returned")

----------------------------------------------------------------------------
(* Actions. *)

\* the form hands the five values of a request to calculate_deviation
Submit(c, args) ==
    /\ frames[c].pc \in Finished \cup {"idle"}
    /\ frames' = [frames EXCEPT ![c] = Call(args)]
    /\ UNCHANGED globals

\* one synchronous call of calculate_deviation, entry to exit
calculate_deviation(c) ==
    /\ frames[c].pc = "L44"
    /\ LET r == Run(frames[c], globals)
       IN  /\ frames' = [frames EXCEPT ![c] = r.frame]
           /\ globals' = r.globals

\* one statement of a call that runs beside other calls
Step(c) ==
    /\ frames[c].pc \notin Finished \cup {"idle"}
    /\ LET r == Exec(frames[c], globals)
       IN  /\ frames' = [frames EXCEPT ![c] = r.frame]
           /\ globals' = r.globals

\* successive calls from the form
Init ==
    /\ frames = [c \in {1} |-> Idle]
    /\ globals = ModuleGlobals

Next ==
    \/ \E c \in DOMAIN frames : \E args \in Requests : Submit(c, args)
    \/ \E c \in DOMAIN frames : calculate_deviation(c)

Spec == Init /\ [][Next]_vars

\* concurrent callers, interleaved statement by statement
InitConc ==
    /\ frames = [c \in Callers |-> Idle]
    /\ globals = ModuleGlobals

NextConc ==
    \/ \E c \in DOMAIN frames : \E args \in ConcRequests : Submit(c, args)
    \/ \E c \in DOMAIN frames : Step(c)

SpecConc == InitConc /\ [][NextConc]_vars

----------------------------------------------------------------------------
(* Properties. *)

\* the five arguments a frame was called with
ArgsOf(f) == [n \in DOMAIN EarhartDefaults |-> f.locals[n]]

Returned(c) == frames[c].pc = "returned"

\* the frame a call with these arguments ends in when it runs alone
Alone(args) == Run(Call(args), ModuleGlobals).frame

\* one unit of the last decimal place kept by round(x, n)
LastPlace(n) == IF n >= FracDigits THEN 1 ELSE 10 ^ (FracDigits - n)

\* C1 as stated: in every returned result the third value is >= 0 and is
\* exactly |g - t| of the first and second returned (rounded) values.
C1_DifferenceOfReturned ==
    \A c \in DOMAIN frames :
        Returned(c) =>
            LET ret == frames[c].ret
            IN  ret[3] >= 0 /\ ret[3] = Abs(ret[1] - ret[2])

\* C1 amended: in every returned result the third value is >= 0 and is the
\* absolute difference of the two deviations as they were before rounding,
\* itself rounded to decimal_places; it is within one unit of the last
\* decimal place of |g - t| of the returned values.
C1_DifferenceOfUnrounded ==
    \A c \in DOMAIN frames :
        Returned(c) =>
            LET ret == frames[c].ret
                n   == frames[c].locals.decimal_places
                raw == RunUntil(Call(ArgsOf(frames[c])), ModuleGlobals,
                                "L63").frame.locals
            IN  /\ ret[3] >= 0
                /\ ret[3] = round(Abs(raw.deviation_distance
                                      - raw.trig_deviation_distance), n)
                /\ Abs(ret[3] - Abs(ret[1] - ret[2])) <= LastPlace(n)

\* C1 witness: a returned result whose difference is positive and is not the
\* difference of the two returned deviations.
C1_Witness ==
    \E c \in DOMAIN frames :
        /\ Returned(c)
        /\ frames[c].ret[3] > 0
        /\ frames[c].ret[3] /= Abs(frames[c].ret[1] - frames[c].ret[2])

\* C2 as stated, at the distances where the tangent enters the result
\* (distance = 0 is the case of C4): a call whose heading_deviation is 90
\* modulo 180 ends in an error and returns nothing, so never a trigonometric
\* deviation beyond every bound.
C2_AsymptoteRaises ==
    \A c \in DOMAIN frames :
        (/\ frames[c].pc \in Finished
         /\ frames[c].locals.heading_deviation % 180 = 90
         /\ frames[c].locals.distance > 0)
        => frames[c].pc = "raised" /\ frames[c].ret = <<>>

\* C3: a returned result for heading_deviation = 0 is 0, 0, 0, and the
\* actual and the planned end point are the same point.
C3_ZeroDeviation ==
    \A c \in DOMAIN frames :
        (Returned(c) /\ frames[c].locals.heading_deviation = 0) =>
            /\ frames[c].ret[1] = 0
            /\ frames[c].ret[2] = 0
            /\ frames[c].ret[3] = 0
            /\ frames[c].locals.actual_end_point
                   = frames[c].locals.correct_end_point

\* C3 witness: a call with heading_deviation = 0 over a long distance has
\* returned, its end point away from the origin.
C3_Witness ==
    \E c \in DOMAIN frames :
        /\ Returned(c)
        /\ frames[c].locals.heading_deviation = 0
        /\ frames[c].locals.distance = 2556
        /\ frames[c].locals.correct_end_point.lat2
               /= frames[c].locals.starting_lat

\* C4: a returned result for distance = 0 is 0, 0, 0, whatever the
\* heading_deviation, 90 and -90 included.
C4_ZeroDistance ==
    \A c \in DOMAIN frames :
        (Returned(c) /\ frames[c].locals.distance = 0) =>
            /\ frames[c].ret[1] = 0
            /\ frames[c].ret[2] = 0
            /\ frames[c].ret[3] = 0

\* C4 witness: a call with distance = 0 and heading_deviation = -90, from a
\* heading other than north, has returned.
C4_Witness ==
    \E c \in DOMAIN frames :
        /\ Returned(c)
        /\ frames[c].locals.distance = 0
        /\ frames[c].locals.heading_deviation = -90
        /\ frames[c].locals.initial_heading = 78

\* text that is not exactly two comma-separated fields that each read as a
\* number
Malformed(text) ==
    LET commas == {i \in 1..Len(text) : text[i] = ","}
    IN  \/ Cardinality(commas) /= 1
        \/ \E i \in commas :
               \/ ~float(SubSeq(text, 1, i - 1)).ok
               \/ ~float(SubSeq(text, i + 1, Len(text))).ok

\* C5: a call whose initial_coordinates is malformed ends by raising
\* ValueError, having made no geodesic and no tangent computation, and
\* returns neither deviations nor links.
C5_MalformedRaises ==
    \A c \in DOMAIN frames :
        (/\ frames[c].pc \in Finished
         /\ Malformed(frames[c].locals.initial_coordinates))
        => /\ frames[c].pc = "raised"
           /\ frames[c].exc = "ValueError"
           /\ frames[c].ret = <<>>
           /\ \A i \in 1..Len(frames[c].calls) :
                  frames[c].calls[i] \notin
                      {"geo.Direct", "geo.Inverse", "math.tan"}
           /\ DOMAIN frames[c].locals \cap
                  {"actual_end_point", "correct_end_point",
                   "deviation_distance", "trig_deviation_distance",
                   "deviation_difference", "links"} = {}

\* C5 witness: a call whose text has three fields, or a field that is no
\* number, has ended.
C5_Witness ==
    \E c \in DOMAIN frames :
        /\ frames[c].pc \in Finished
        /\ frames[c].locals.initial_coordinates \in {ThreeFields, NotANumber}
        /\ frames[c].locals.distance = 2556

\* C6 as stated, away from the tangent's asymptote (the case of C2): the
\* call with heading_deviation negated returns the same geodesic deviation
\* and the same trigonometric deviation.
C6_Symmetric ==
    \A c \in DOMAIN frames :
        (Returned(c) /\ frames[c].locals.heading_deviation % 180 /= 90) =>
            LET args   == ArgsOf(frames[c])
                mirror == Alone([args EXCEPT !.heading_deviation =
                                               -args.heading_deviation])
            IN  /\ mirror.ret[1] = frames[c].ret[1]
                /\ mirror.ret[2] = frames[c].ret[2]

\* C6 amended: the call with heading_deviation negated returns the same
\* trigonometric deviation (the geodesic deviations may differ: the
\* ellipsoid is not symmetric about an arbitrary heading).
C6_TrigSymmetric ==
    \A c \in DOMAIN frames :
        Returned(c) =>
            LET args   == ArgsOf(frames[c])
                mirror == Alone([args EXCEPT !.heading_deviation =
                                               -args.heading_deviation])
            IN  mirror.pc = "returned" /\ mirror.ret[2] = frames[c].ret[2]

\* C6 witness: a returned call with a non-zero trigonometric deviation, away
\* from the asymptote, whose mirror image returns another geodesic deviation.
C6_Witness ==
    \E c \in DOMAIN frames :
        /\ Returned(c)
        /\ frames[c].ret[2] > 0
        /\ frames[c].locals.heading_deviation % 180 /= 90
        /\ LET args == ArgsOf(frames[c])
           IN  Alone([args EXCEPT !.heading_deviation =
                                    -args.heading_deviation]).ret[1]
                   /= frames[c].ret[1]

\* C7: the returned trigonometric deviation is |distance * tan(radians of
\* heading_deviation)| rounded to decimal_places, is never negative, is the
\* same for every origin and initial heading, and is 44.6 miles to within
\* 0.05 for the form's defaults.
C7_TrigFormula ==
    \A c \in DOMAIN frames :
        Returned(c) =>
            LET args == ArgsOf(frames[c])
                trig == frames[c].ret[2]
            IN  /\ trig >= 0
                /\ trig = round(Abs(FloatMul(args.distance,
                               math_tan(math_radians(args.heading_deviation)))),
                               args.decimal_places)
                /\ \A text \in {EarhartCoordinates, NewYorkCoordinates} :
                   \A h \in Headings :
                       Alone([args EXCEPT !.initial_coordinates = text,
                                          !.initial_heading = h]).ret[2]
                           = trig
                /\ args = EarhartDefaults =>
                       Abs(10 * trig - 446 * Scale) * 2 <= Scale

\* C7 witness: the call with the form's defaults has returned.
C7_Witness ==
    \E c \in DOMAIN frames :
        Returned(c) /\ ArgsOf(frames[c]) = EarhartDefaults

\* C8: under every interleaving of the callers' statements, a finished call
\* holds the outcome its arguments give when the call runs alone, two
\* finished calls with the same arguments hold the same outcome, and the
\* module namespace that the calls read is as it was at the start.
C8_Stateless ==
    /\ globals = ModuleGlobals
    /\ \A c \in DOMAIN frames :
           frames[c].pc \in Finished =>
               LET alone == Alone(ArgsOf(frames[c]))
               IN  /\ frames[c].pc = alone.pc
                   /\ frames[c].ret = alone.ret
                   /\ frames[c].exc = alone.exc
    /\ \A c1, c2 \in DOMAIN frames :
           (/\ frames[c1].pc \in Finished
            /\ frames[c2].pc \in Finished
            /\ ArgsOf(frames[c1]) = ArgsOf(frames[c2]))
           => /\ frames[c1].ret = frames[c2].ret
              /\ frames[c1].exc = frames[c2].exc

\* C8 witness: one call has returned while another, entered with other
\* arguments, is between its radians and its tangent.
C8_Witness ==
    \E c1, c2 \in DOMAIN frames :
        /\ c1 /= c2
        /\ Returned(c1)
        /\ frames[c2].pc = "L60"
        /\ frames[c1].locals.heading_deviation
               /= frames[c2].locals.heading_deviation

\* C9: rounding any of the three returned scalars again to decimal_places
\* gives the value returned.
C9_RoundingIdempotent ==
    \A c \in DOMAIN frames :
        Returned(c) =>
            \A i \in 1..3 :
                round(frames[c].ret[i], frames[c].locals.decimal_places)
                    = frames[c].ret[i]

\* C9 witness: a returned call in which rounding changed all three scalars.
C9_Witness ==
    \E c \in DOMAIN frames :
        /\ Returned(c)
        /\ LET raw == RunUntil(Call(ArgsOf(frames[c])), ModuleGlobals,
                               "L66").frame.locals
           IN  /\ raw.deviation_distance /= frames[c].ret[1]
               /\ raw.trig_deviation_distance /= frames[c].ret[2]
               /\ raw.deviation_difference /= frames[c].ret[3]

\* the links text for an origin, a planned and an actual end point
LinksText(origin, planned, actual) ==
    "Starting Point: [Link](https://www.google.com/maps/?q="
    \o format(origin[1]) \o "," \o format(origin[2]) \o ")\n\n"
    \o "Planned Ending Point: [Link](https://www.google.com/maps/?q="
    \o format(planned.lat2) \o "," \o format(planned.lon2) \o ")\n\n"
    \o "Actual Ending Point: [Link](https://www.google.com/maps/?q="
    \o format(actual.lat2) \o "," \o format(actual.lon2) \o ")"

\* C10: the returned links are, in this order, the origin, the planned end
\* point (the direct solution along initial_heading, under the label
\* 'Planned Ending Point') and the actual end point (the direct solution
\* along initial_heading + heading_deviation, the plain sum, under the label
\* 'Actual Ending Point'); for the form's defaults they are the text below.
C10_Endpoints ==
    \A c \in DOMAIN frames :
        Returned(c) =>
            LET l       == frames[c].locals
                s12     == l.distance * METERS_TO_MILES
                planned == Direct(l.starting_lat, l.starting_lon,
                                  l.initial_heading, s12)
                actual  == Direct(l.starting_lat, l.starting_lon,
                                  l.initial_heading + l.heading_deviation, s12)
            IN  /\ l.correct_end_point = planned
                /\ l.actual_end_point = actual
                /\ frames[c].ret[4]
                       = LinksText(<<l.starting_lat, l.starting_lon>>,
                                   planned, actual)
                /\ ArgsOf(frames[c]) = EarhartDefaults =>
                       frames[c].ret[4] =
                           "Starting Point: [Link](https://www.google.com/maps/?q=-6.728,146.994)\n\n"
                           \o "Planned Ending Point: [Link](https://www.google.com/maps/?q=1.801056,-176.970726)\n\n"
                           \o "Actual Ending Point: [Link](https://www.google.com/maps/?q=1.212154,-176.833412)"

\* C10 witness: a returned call with a negative heading_deviation larger
\* than the heading (the sum is negative) whose two end points differ.
C10_Witness ==
    \E c \in DOMAIN frames :
        /\ Returned(c)
        /\ frames[c].locals.initial_heading
               + frames[c].locals.heading_deviation < 0
        /\ frames[c].locals.actual_end_point
               /= frames[c].locals.correct_end_point

====
